---- MODULE Spec2Model ----
(***************************************************************************)
(* A model of canvasapi.paginated_list.PaginatedList: a lazily grown list  *)
(* over a paginated HTTP API, with index access, slice walks and full      *)
(* iteration sharing one backing list and one cursor.                      *)
(*                                                                         *)
(* Strings of the program (URLs, locators) are sequences of one-character  *)
(* strings.  An optional value (Python's None or a value) is a sequence of *)
(* length 0 or 1.  A JSON value is a record tagged by t.                   *)
(***************************************************************************)
EXTENDS Integers, Sequences, FiniteSets, TLC

\* ------------------------------------------------------------ bounds
\* Most pages a server serves.
MaxPages == 2
\* Most raw items on one page.
MaxPageSize == 2

\* ------------------------------------------------------------ values
None == <<>>
Some(x) == <<x>>

EmptyDict == [k \in {} |-> ""]

\* dict.update: the keys of e override those of d.
DictUpdate(d, e) ==
    [k \in (DOMAIN d) \cup (DOMAIN e) |-> IF k \in DOMAIN e THEN e[k] ELSE d[k]]

Digit == <<"1", "2", "3", "4", "5", "6", "7", "8", "9">>

\* The requester's two base URLs (self._requester.base_url, .new_quizzes_url).
base_url == <<"h", "v", "/">>
new_quizzes_url == <<"h", "q", "/">>

\* The locator of page k, as the server names it after a base URL.
Loc(k) == <<"p", Digit[k]>>

\* ------------------------------------------------------------ the regex
HasPrefixAt(u, pre, p) ==
    /\ p + Len(pre) - 1 <= Len(u)
    /\ SubSeq(u, p, p + Len(pre) - 1) = pre

\* (.*): the characters up to the end of the line.
RECURSIVE DotStar(_)
DotStar(u) ==
    IF u = <<>> \/ Head(u) = "\n" THEN <<>> ELSE <<Head(u)>> \o DotStar(Tail(u))

\* The positions at which re.search may start a match of (?:base|quizzes).
MatchStarts(u) == 1..(Len(u) + 1)

\* re.search(r"(?:{base}|{quizzes})(.*)", u): None, or Some(group(1)) of the
\* leftmost match, the first alternative tried first.
RegexSearch(u) ==
    LET hits == {p \in MatchStarts(u) :
                    HasPrefixAt(u, base_url, p) \/ HasPrefixAt(u, new_quizzes_url, p)}
    IN  IF hits = {} THEN None
        ELSE LET p == CHOOSE q \in hits : \A r \in hits : q <= r
                 n == IF HasPrefixAt(u, base_url, p) THEN Len(base_url)
                      ELSE Len(new_quizzes_url)
             IN  Some(DotStar(SubSeq(u, p + n, Len(u))))

\* ------------------------------------------------------------ errors
ErrNegIndex == "IndexError: Cannot negative index a PaginatedList"
ErrNegSlice == "IndexError: Cannot negative index a PaginatedList slice"
ErrRange == "IndexError: list index out of range"
ErrNoGroup == "AttributeError: 'NoneType' object has no attribute 'group'"
ErrNullUrl == "TypeError: expected string or bytes-like object"
ErrNoneCmp == "TypeError: '<' not supported between 'NoneType' and 'int'"
ErrRoot == "ValueError: The key does not exist in the response."
ErrListKey == "TypeError: list indices must be integers or slices, not str"
ErrUpdate == "AttributeError: object has no attribute 'update'"
ErrTransport == "requester.request raised"
ErrDecode == "response.json raised"
NoErr == ""

\* An except clause that catches nothing.
CatchesNothing(e) == FALSE

IsIndexError(e) == e \in {ErrNegIndex, ErrNegSlice, ErrRange}

\* ------------------------------------------------------------ the server
\* Raw JSON values of a page: an object, null, or a string (what iterating a
\* JSON object yields).
Obj(d) == [t |-> "obj", v |-> d]
Null == [t |-> "null", v |-> EmptyDict]
Str == [t |-> "str", v |-> EmptyDict]

\* The raw item of kind c, the n-th proper item of the server.
RawItem(c, n) ==
    CASE c = "item" -> Obj([id |-> Digit[n]])
      [] c = "empty" -> Obj(EmptyDict)
      [] c = "null" -> Null
      [] OTHER -> Str

RECURSIVE CountItems(_)
CountItems(pat) ==
    IF pat = <<>> THEN 0
    ELSE (IF Head(pat) = "item" THEN 1 ELSE 0) + CountItems(Tail(pat))

RECURSIVE ItemsBefore(_, _)
ItemsBefore(pages, k) ==
    IF k <= 1 THEN 0 ELSE ItemsBefore(pages, k - 1) + CountItems(pages[k - 1].pat)

RECURSIVE RawItems(_, _)
RawItems(pat, n) ==
    IF pat = <<>> THEN <<>>
    ELSE <<RawItem(Head(pat), n + 1)>>
         \o RawItems(Tail(pat), IF Head(pat) = "item" THEN n + 1 ELSE n)

\* The URL a page of link kind c gives for the page after page k.
NextUrl(c, k) ==
    CASE c \in {"base", "meta", "shadowed"} -> base_url \o Loc(k + 1)
      [] c = "quiz" -> new_quizzes_url \o Loc(k + 1)
      [] c = "embed" -> <<"x", "?">> \o base_url \o Loc(k + 1)
      [] OTHER -> <<"x", "/">> \o Loc(k + 1)

\* response.links of page k: the "next" relation's URL if any, and whether
\* the header names other relations (current, first, last).
Links(c, k) ==
    CASE c \in {"base", "quiz", "embed", "alien"} ->
             [next |-> Some(NextUrl(c, k)), other |-> TRUE]
      [] c \in {"end", "shadowed"} -> [next |-> None, other |-> TRUE]
      [] OTHER -> [next |-> None, other |-> FALSE]

\* data["meta"] of page k when the body is an object: None (no meta key), or
\* whether meta.pagination.next exists and its value (None is JSON null).
Meta(c, k) ==
    CASE c \in {"meta", "shadowed"} -> Some([path |-> TRUE, url |-> Some(NextUrl(c, k))])
      [] c = "metanull" -> Some([path |-> TRUE, url |-> None])
      [] c = "metaend" -> Some([path |-> FALSE, url |-> None])
      [] OTHER -> None

\* The decoded response of page k of server sv.
Response(sv, k) ==
    LET pg == sv.pages[k]
    IN  [links |-> Links(pg.link, k),
         shape |-> sv.shape,
         meta  |-> IF sv.shape = "dict" THEN Meta(pg.link, k) ELSE None,
         root  |-> sv.shape = "dict" /\ pg.root,
         items |-> RawItems(pg.pat, ItemsBefore(sv.pages, k))]

\* The page a locator names on server sv, 0 if none.
PageOf(sv, loc) ==
    IF \E k \in 1..Len(sv.pages) : Loc(k) = loc
    THEN CHOOSE k \in 1..Len(sv.pages) : Loc(k) = loc
    ELSE 0

\* What goes wrong with the n-th request the instance issues.
Fault(sv, n) == IF n <= Len(sv.faults) THEN sv.faults[n] ELSE NoErr

\* ------------------------------------------------------------ the instance
VARIABLES
    server,         \* the pages the requester's host serves, and its faults
    root,           \* self._root: None or Some(field name)
    extra_attribs,  \* self._extra_attribs
    kwargs,         \* the keyword arguments __init__ was called with
    elements,       \* self._elements
    next_url,       \* self._next_url: None or Some(locator)
    next_params,    \* self._next_params
    requests,       \* every call of requester.request so far: [url, params]
    gens,           \* the generators made by __iter__ and _Slice.__iter__
    ret,            \* the outcome of the last operation the caller made
    seen            \* an earlier successful collection[i] the caller noted:
                    \* the index, the element, the requests issued by then

vars == <<server, root, extra_attribs, kwargs, elements, next_url,
          next_params, requests, gens, ret, seen>>

\* The mutable fields of the instance, as the operators below pass them on.
Self ==
    [elements |-> elements, next_url |-> next_url, next_params |-> next_params,
     requests |-> requests]

first_url == Loc(1)

\* __init__: kwargs with per_page defaulted to 100.
FirstParams(kw) ==
    DictUpdate(kw, [per_page |-> IF "per_page" \in DOMAIN kw THEN kw.per_page ELSE 100])

\* _has_next
HasNext(s) == s.next_url # None

\* _is_larger_than
IsLargerThan(s, index) == Len(s.elements) > index \/ HasNext(s)

\* Lines 92-102: the next link of a response: None, or Some(url) where url is
\* itself None when meta.pagination.next is JSON null.
NextLink(resp) ==
    IF resp.links.next # None \/ resp.links.other
    THEN (IF resp.links.next = None THEN None ELSE Some(resp.links.next))
    ELSE IF resp.shape = "dict" /\ resp.meta # None
         THEN (IF resp.meta[1].path THEN Some(resp.meta[1].url) ELSE None)
         ELSE None

\* Lines 117-123: the sequence the item loop walks, or the error of the root
\* lookup.
RootData(resp) ==
    IF root # None
    THEN (IF resp.shape = "list" THEN [err |-> ErrListKey, data |-> <<>>]
          ELSE IF ~resp.root THEN [err |-> ErrRoot, data |-> <<>>]
          ELSE [err |-> NoErr, data |-> resp.items])
    ELSE (IF resp.shape = "list" THEN [err |-> NoErr, data |-> resp.items]
          ELSE [err |-> NoErr,
                data |-> (IF resp.meta # None THEN <<Str>> ELSE <<>>)
                         \o (IF resp.root THEN <<Str>> ELSE <<>>)])

\* Line 126: whether a raw item is turned into an element.
Kept(raw) == raw.t # "null"

\* Lines 125-128: the elements built from the raw items.
RECURSIVE Content(_)
Content(data) ==
    IF data = <<>> THEN <<>>
    ELSE (IF Kept(Head(data))
          THEN <<DictUpdate(Head(data).v, extra_attribs)>>
          ELSE <<>>) \o Content(Tail(data))

\* A fetch that leaves the request parameters as they are.
ParamsKept == next_params

\* The request parameters a fetch leaves behind: line 113.
ParamsAfterFetch == EmptyDict

\* An exception out of _get_next_page with the fields as they then are.
Raise(s, err) == [s |-> s, content |-> <<>>, err |-> err]

\* Lines 117-130 with the cursor and parameters already stored: the root
\* lookup and the item loop.
BuildContent(s, rd) ==
    IF rd.err # NoErr THEN Raise(s, rd.err)
    ELSE IF \E j \in 1..Len(rd.data) : rd.data[j].t \notin {"null", "obj"}
    THEN Raise(s, ErrUpdate)
    ELSE [s |-> s, content |-> Content(rd.data), err |-> NoErr]

\* A fetch that looks up the root before it stores the cursor.
StoreCursorLate(s, resp, cur) ==
    IF RootData(resp).err # NoErr THEN Raise(s, RootData(resp).err)
    ELSE BuildContent([s EXCEPT !.next_url = cur, !.next_params = ParamsAfterFetch],
                      RootData(resp))

\* Lines 109-113 once the cursor cur is known: store it, reset the
\* parameters, go on to the body.
StoreCursor(s, resp, cur) ==
    BuildContent([s EXCEPT !.next_url = cur, !.next_params = ParamsAfterFetch],
                 RootData(resp))

\* Lines 109-111 when there is a next link: m is what re.search gave.
StripHost(s, resp, m) ==
    IF m = None THEN Raise(s, ErrNoGroup) ELSE StoreCursor(s, resp, Some(m[1]))

\* Lines 104-111: the cursor from the next link (self._next_url is None
\* meanwhile, since line 87).
ExtractCursor(s, resp, link) ==
    IF link = None THEN StoreCursor(s, resp, None)
    ELSE IF link[1] = None THEN Raise(s, ErrNullUrl)
    ELSE StripHost(s, resp, RegexSearch(link[1][1]))

\* A fetch that clears the cursor before it decodes the body.
RespondClearsFirst(s, k, fault) ==
    IF fault = ErrTransport \/ k = 0 THEN Raise(s, ErrTransport)
    ELSE IF fault = ErrDecode THEN Raise([s EXCEPT !.next_url = None], ErrDecode)
    ELSE ExtractCursor([s EXCEPT !.next_url = None], Response(server, k),
                       NextLink(Response(server, k)))

\* A fetch without line 87.
RespondKeepsCursor(s, k, fault) ==
    IF fault = ErrTransport \/ k = 0 THEN Raise(s, ErrTransport)
    ELSE IF fault = ErrDecode THEN Raise(s, ErrDecode)
    ELSE ExtractCursor(s, Response(server, k), NextLink(Response(server, k)))

\* Lines 80-87 once the request went out: s has the request logged, k is the
\* page the locator names, fault what goes wrong with this request.
Respond(s, k, fault) ==
    IF fault = ErrTransport \/ k = 0 THEN Raise(s, ErrTransport)
    ELSE IF fault = ErrDecode THEN Raise(s, ErrDecode)
    ELSE ExtractCursor([s EXCEPT !.next_url = None], Response(server, k),
                       NextLink(Response(server, k)))

\* _get_next_page on the fields s: the fields after it, the elements it
\* returns and the error it raises (NoErr if none).
GetNextPage(s) ==
    Respond([s EXCEPT !.requests = Append(@, [url |-> s.next_url[1],
                                              params |-> s.next_params])],
            PageOf(server, s.next_url[1]),
            Fault(server, Len(s.requests) + 1))

\* A _grow that returns the page without keeping it.
GrowForgets(s) ==
    [s |-> GetNextPage(s).s, new |-> GetNextPage(s).content,
     err |-> GetNextPage(s).err]

\* A _grow that puts the new page before the elements it has.
ExtendInFront(r) ==
    IF r.err # NoErr THEN [s |-> r.s, new |-> <<>>, err |-> r.err]
    ELSE [s |-> [r.s EXCEPT !.elements = r.content \o @],
          new |-> r.content, err |-> NoErr]

\* A _grow that assigns the new page instead of adding it.
ExtendReplaces(r) ==
    IF r.err # NoErr THEN [s |-> r.s, new |-> <<>>, err |-> r.err]
    ELSE [s |-> [r.s EXCEPT !.elements = r.content],
          new |-> r.content, err |-> NoErr]

\* Lines 138-139, r being what _get_next_page gave.
Extend(r) ==
    IF r.err # NoErr THEN [s |-> r.s, new |-> <<>>, err |-> r.err]
    ELSE [s |-> [r.s EXCEPT !.elements = @ \o r.content],
          new |-> r.content, err |-> NoErr]

\* _grow: fields, the new elements, the error.
Grow(s) == Extend(GetNextPage(s))

\* _get_up_to_index: fields and error.  GrowMore is the loop body once _grow
\* gave g.
RECURSIVE GetUpToIndex(_, _)
RECURSIVE GrowMore(_, _)
GrowMore(g, index) ==
    IF g.err # NoErr THEN [s |-> g.s, err |-> g.err]
    ELSE GetUpToIndex(g.s, index)

\* A _get_up_to_index that stops one element short.
GetUpToIndexShort(s, index) ==
    IF Len(s.elements) < index /\ HasNext(s)
    THEN GrowMore(Grow(s), index)
    ELSE [s |-> s, err |-> NoErr]

\* A _get_up_to_index that fetches whatever is left.
GetUpToIndexAll(s, index) ==
    IF HasNext(s) THEN GrowMore(Grow(s), index) ELSE [s |-> s, err |-> NoErr]

GetUpToIndex(s, index) ==
    IF Len(s.elements) <= index /\ HasNext(s)
    THEN GrowMore(Grow(s), index)
    ELSE [s |-> s, err |-> NoErr]

\* Line 21, u being what _get_up_to_index gave.
ElementAt(u, index) ==
    IF u.err # NoErr THEN [s |-> u.s, err |-> u.err, val |-> None]
    ELSE IF index >= Len(u.s.elements)
    THEN [s |-> u.s, err |-> ErrRange, val |-> None]
    ELSE [s |-> u.s, err |-> NoErr, val |-> Some(u.s.elements[index + 1])]

\* __getitem__ with an int: fields, error, and the element returned.
GetItemInt(s, index) ==
    IF index < 0 THEN [s |-> s, err |-> ErrNegIndex, val |-> None]
    ELSE ElementAt(GetUpToIndex(s, index), index)

\* ------------------------------------------------------------ generators
\* A generator: kind "iter" (PaginatedList.__iter__) or "slice"
\* (_Slice.__iter__), suspended at pc:
\*   "new"     made, not yet started
\*   "replay"  at the yield of line 70, index elements handed out so far
\*   "grow"    at the yield of line 74, pos elements of buf handed out
\*   "yield"   at the yield of line 162, index the index just handed out
\*   "done"    returned;  "raised"  ended by an exception
\* out is what it has yielded so far.
NoGen ==
    [kind |-> "none", pc |-> "done", start |-> 0, stop |-> None, step |-> 1,
     index |-> 0, buf |-> <<>>, pos |-> 0, out |-> <<>>]

NewIterGen == [NoGen EXCEPT !.kind = "iter", !.pc = "new"]

\* A _Slice.__init__ that checks the start alone.
SliceInitStartOnly(start, stop, step) ==
    LET st == IF start = None \/ start = Some(0) THEN 0 ELSE start[1]
        sp == IF step = None \/ step = Some(0) THEN 1 ELSE step[1]
    IN  [start |-> st, stop |-> stop, step |-> sp,
         err |-> IF st < 0 THEN ErrNegSlice ELSE NoErr]

\* _Slice.__init__ (lines 150-155) on slice(start, stop, step), each None or
\* Some(int): the error raised, and the three fields stored.
SliceInit(start, stop, step) ==
    LET st == IF start = None \/ start = Some(0) THEN 0 ELSE start[1]
        sp == IF step = None \/ step = Some(0) THEN 1 ELSE step[1]
    IN  [start |-> st, stop |-> stop, step |-> sp,
         err |-> IF st < 0 THEN ErrNegSlice
                 ELSE IF stop = None THEN ErrNoneCmp
                 ELSE IF stop[1] < 0 THEN ErrNegSlice
                 ELSE NoErr]

\* A _finished that lets the stop index through.
FinishedLate(gen, index) == gen.stop # None /\ index > gen.stop[1]

\* _Slice._finished
Finished(gen, index) == gen.stop # None /\ index >= gen.stop[1]

\* Lines 71-74: the loop of __iter__ from its head, until it yields, returns
\* or raises.  Yielded is the loop body once _grow gave g.
RECURSIVE GrowLoop(_, _)
RECURSIVE Yielded(_, _)
Yielded(g, gen) ==
    IF g.err # NoErr
    THEN [s |-> g.s, gen |-> [gen EXCEPT !.pc = "raised"], err |-> g.err, val |-> None]
    ELSE IF g.new = <<>> THEN GrowLoop(g.s, gen)
    ELSE [s |-> g.s,
          gen |-> [gen EXCEPT !.pc = "grow", !.buf = g.new, !.pos = 1,
                              !.out = Append(@, g.new[1])],
          err |-> NoErr, val |-> Some(g.new[1])]

GrowLoop(s, gen) ==
    IF ~HasNext(s)
    THEN [s |-> s, gen |-> [gen EXCEPT !.pc = "done"], err |-> NoErr, val |-> None]
    ELSE Yielded(Grow(s), gen)

\* An __iter__ that starts every pass by fetching from the first page.
IterStepFromFirst(s, gen) ==
    IF gen.pc = "new"
    THEN GrowLoop([s EXCEPT !.next_url = Some(first_url)], [gen EXCEPT !.pc = "grow"])
    ELSE IF gen.pc = "grow" /\ gen.pos < Len(gen.buf)
    THEN [s |-> s,
          gen |-> [gen EXCEPT !.pos = @ + 1, !.out = Append(@, gen.buf[gen.pos + 1])],
          err |-> NoErr, val |-> Some(gen.buf[gen.pos + 1])]
    ELSE GrowLoop(s, gen)

\* next() on a generator of __iter__.
IterStep(s, gen) ==
    IF gen.pc \in {"new", "replay"} /\ gen.index < Len(s.elements)
    THEN [s |-> s,
          gen |-> [gen EXCEPT !.pc = "replay", !.index = @ + 1,
                              !.out = Append(@, s.elements[gen.index + 1])],
          err |-> NoErr, val |-> Some(s.elements[gen.index + 1])]
    ELSE IF gen.pc = "grow" /\ gen.pos < Len(gen.buf)
    THEN [s |-> s,
          gen |-> [gen EXCEPT !.pos = @ + 1, !.out = Append(@, gen.buf[gen.pos + 1])],
          err |-> NoErr, val |-> Some(gen.buf[gen.pos + 1])]
    ELSE GrowLoop(s, gen)

\* Lines 161-165, r being what self._list[index] gave.
SliceYield(r, gen, index) ==
    IF IsIndexError(r.err)
    THEN [s |-> r.s, gen |-> [gen EXCEPT !.pc = "done", !.index = index],
          err |-> NoErr, val |-> None]
    ELSE IF r.err # NoErr
    THEN [s |-> r.s, gen |-> [gen EXCEPT !.pc = "raised", !.index = index],
          err |-> r.err, val |-> None]
    ELSE [s |-> r.s,
          gen |-> [gen EXCEPT !.pc = "yield", !.index = index,
                              !.out = Append(@, r.val[1])],
          err |-> NoErr, val |-> r.val]

\* A _Slice.__iter__ that stays in its loop where it should return.
SliceLoopNoEnd(s, gen, index) ==
    IF Finished(gen, index) \/ ~IsLargerThan(s, index)
    THEN [s |-> s, gen |-> gen, err |-> NoErr, val |-> None]
    ELSE SliceYield(GetItemInt(s, index), gen, index)

\* Lines 159-167: the loop of _Slice.__iter__ from its head with the given
\* index.
SliceLoop(s, gen, index) ==
    IF Finished(gen, index) \/ ~IsLargerThan(s, index)
    THEN [s |-> s, gen |-> [gen EXCEPT !.pc = "done", !.index = index],
          err |-> NoErr, val |-> None]
    ELSE SliceYield(GetItemInt(s, index), gen, index)

\* next() on a generator of _Slice.__iter__.
SliceStep(s, gen) ==
    SliceLoop(s, gen, IF gen.pc = "new" THEN gen.start ELSE gen.index + gen.step)

\* ------------------------------------------------------------ actions
\* The generators a caller holds at once: two are what it takes to interleave
\* one pass with another.
Gens == {1, 2}

\* The indices a caller asks for: one negative, and one past the most items a
\* server holds.
MaxIndex == MaxPages * MaxPageSize
Indices == (-1)..MaxIndex

Store(s) ==
    /\ elements' = s.elements
    /\ next_url' = s.next_url
    /\ next_params' = s.next_params
    /\ requests' = s.requests

Outcome(op, g, arg, err, val, s) ==
    [op |-> op, g |-> g, arg |-> arg, err |-> err, val |-> val,
     nreq |-> Len(s.requests) - Len(requests)]

\* collection[i]; with note, the caller keeps the element it got (once).
GetItem(i, note) ==
    LET r == GetItemInt(Self, i)
    IN  /\ Store(r.s)
        /\ ret' = Outcome("getitem", 0, <<Some(i)>>, r.err, r.val, r.s)
        /\ note => (seen = None /\ r.err = NoErr)
        /\ seen' = IF note
                   THEN Some([i |-> i, val |-> r.val[1], at |-> Len(r.s.requests)])
                   ELSE seen
        /\ UNCHANGED <<server, root, extra_attribs, kwargs, gens>>

\* An iter(collection) that rewinds the cursor to the first page.
NewIterRewinds(g) ==
    /\ gens' = [gens EXCEPT ![g] = NewIterGen]
    /\ next_url' = Some(first_url)
    /\ ret' = Outcome("iter", g, <<>>, NoErr, None, Self)
    /\ UNCHANGED <<server, root, extra_attribs, kwargs, elements,
                   next_params, requests, seen>>

\* iter(collection), kept as generator g
NewIter(g) ==
    /\ gens' = [gens EXCEPT ![g] = NewIterGen]
    /\ ret' = Outcome("iter", g, <<>>, NoErr, None, Self)
    /\ UNCHANGED <<server, root, extra_attribs, kwargs, elements, next_url,
                   next_params, requests, seen>>

\* iter(collection[start:stop:step]), kept as generator g
NewSlice(g, start, stop, step) ==
    LET sl == SliceInit(start, stop, step)
    IN  /\ gens' = IF sl.err # NoErr THEN gens
                   ELSE [gens EXCEPT ![g] =
                            [NoGen EXCEPT !.kind = "slice", !.pc = "new",
                                          !.start = sl.start, !.stop = sl.stop,
                                          !.step = sl.step]]
        /\ ret' = Outcome("slice", g, <<start, stop, step>>, sl.err, None, Self)
        /\ UNCHANGED <<server, root, extra_attribs, kwargs, elements,
                       next_url, next_params, requests, seen>>

\* next(g): the generator runs to its next yield, return or raise.
Resume(g) ==
    /\ gens[g].pc \notin {"done", "raised"}
    /\ LET r == IF gens[g].kind = "iter" THEN IterStep(Self, gens[g])
                ELSE SliceStep(Self, gens[g])
       IN  /\ Store(r.s)
           /\ gens' = [gens EXCEPT ![g] = r.gen]
           /\ ret' = Outcome("next", g, <<>>, r.err, r.val, r.s)
    /\ UNCHANGED <<server, root, extra_attribs, kwargs, seen>>

\* ------------------------------------------------------------ servers
\* What one page may hold: 0..MaxPageSize items, or also a null before an
\* item.
PlainPats == {[j \in 1..n |-> "item"] : n \in 0..MaxPageSize}
Pats == PlainPats \cup {<<"null", "item">>}

\* And pages with an empty object beside an item, or alone.
RawPats == Pats \cup {<<"item", "empty">>, <<"empty">>}

\* The ways to fill 1..MaxPages pages from the patterns P.
SplitsOf(P) == UNION {[1..n -> P] : n \in 1..MaxPages}
\* The same pattern on every page.
Uniform(P) == UNION {{[k \in 1..n |-> p] : p \in P} : n \in 1..MaxPages}

\* How a well-behaved server links its pages: a Link header with the primary
\* or the new-quizzes base URL, or meta.pagination.next in an object body
\* whose list is under the root field.
Styles == {"base", "quiz", "meta"}

EndOf(style) == IF style = "meta" THEN "metaend" ELSE "end"
ShapeOf(style) == IF style = "meta" THEN "dict" ELSE "list"
RootOf(style) == IF style = "meta" THEN Some("items") ELSE None

\* The server of the given style whose pages hold pats, in order.
Server(style, pats) ==
    [shape |-> ShapeOf(style),
     pages |-> [k \in 1..Len(pats) |->
                  [pat |-> pats[k],
                   link |-> IF k < Len(pats) THEN style ELSE EndOf(style),
                   root |-> TRUE]],
     faults |-> <<>>]

\* A server with one defect at page (or request) at: a next link on an
\* unknown host, a next link that only contains the base URL, a body without
\* the root field, a request that fails in transport.
Defects == {"alien", "embed", "noroot", "transport"}

\* Two more, of servers that paginate in the body: a Link header without a
\* next relation beside meta.pagination.next, and a meta.pagination.next that
\* is null.  And one of the transport: a body that does not decode.
MetaDefects == {"shadowed", "metanull"}

Defective(sv, d, at) ==
    CASE d \in {"alien", "embed", "shadowed", "metanull"} ->
             [sv EXCEPT !.pages[at].link = d]
      [] d = "noroot" -> [sv EXCEPT !.pages[at].root = FALSE]
      [] d = "decode" -> [sv EXCEPT !.faults = [j \in 1..at |-> IF j = at THEN ErrDecode
                                                                ELSE NoErr]]
      [] OTHER -> [sv EXCEPT !.faults = [j \in 1..at |-> IF j = at THEN ErrTransport
                                                          ELSE NoErr]]

StyleOfDefect(d) == IF d \in {"noroot"} \cup MetaDefects THEN "meta" ELSE "base"

\* Where defect d makes sense on a server of n pages.
DefectAt(d, n) == IF d \in {"embed", "shadowed"} THEN 1..(n - 1) ELSE 1..n

\* The keyword arguments of a caller that gives none, and of callers that
\* give a filter, a page size, or both.
Kwargs == {EmptyDict}
KwargsGiven ==
    {[search |-> "x"], [per_page |-> 50], [search |-> "x", per_page |-> 50]}
ExtraAttribs == {[course_id |-> "7"]}

NoRet == [op |-> "init", g |-> 0, arg |-> <<>>, err |-> NoErr, val |-> None, nreq |-> 0]

\* The instance right after __init__(..., _root=rt, **kw), on server sv.
ConstructedWith(sv, rt, kw) ==
    /\ server = sv
    /\ root = rt
    /\ extra_attribs \in ExtraAttribs
    /\ kwargs = kw
    /\ elements = <<>>
    /\ next_url = Some(first_url)
    /\ next_params = FirstParams(kw)
    /\ requests = <<>>
    /\ gens = [g \in Gens |-> NoGen]
    /\ ret = NoRet
    /\ seen = None

\* The same, of a caller that gives no keyword arguments.
Constructed(sv, rt) == \E kw \in Kwargs : ConstructedWith(sv, rt, kw)

\* Servers with a Link header, no nulls.
InitPlain ==
    \E pats \in SplitsOf(PlainPats) : Constructed(Server("base", pats), None)

\* Well-behaved servers of every style.
InitOK ==
    \E style \in Styles, pats \in SplitsOf(Pats) :
        Constructed(Server(style, pats), RootOf(style))

\* Servers with a Link header, some with a request that fails in transport.
InitFlaky ==
    \/ InitPlain
    \/ \E pats \in Uniform(PlainPats) : \E at \in DefectAt("transport", Len(pats)) :
          Constructed(Defective(Server("base", pats), "transport", at), None)

\* Servers that paginate in the body, some with a defect of that.
InitMeta ==
    \/ \E pats \in SplitsOf(PlainPats) : Constructed(Server("meta", pats), RootOf("meta"))
    \/ \E d \in MetaDefects, pats \in Uniform(PlainPats) :
          \E at \in DefectAt(d, Len(pats)) :
              Constructed(Defective(Server("meta", pats), d, at), RootOf("meta"))

\* Callers with and without keyword arguments, on servers with a Link
\* header, some with a request that fails in transport or a body that does not
\* decode.
InitParams ==
    \E kw \in Kwargs \cup KwargsGiven, pats \in Uniform(PlainPats) :
        \/ ConstructedWith(Server("base", pats), None, kw)
        \/ \E d \in {"transport", "decode"}, at \in 1..Len(pats) :
              ConstructedWith(Defective(Server("base", pats), d, at), None, kw)

\* Servers with a Link header whose pages hold nulls and empty objects among
\* the items.
InitRaw ==
    \E pats \in SplitsOf(RawPats) : Constructed(Server("base", pats), None)

\* Well-behaved servers, and servers with a defect.
Init ==
    \/ \E style \in Styles, pats \in SplitsOf(PlainPats) :
          Constructed(Server(style, pats), RootOf(style))
    \/ \E d \in Defects, pats \in Uniform(PlainPats) :
          \E at \in DefectAt(d, Len(pats)) :
              Constructed(Defective(Server(StyleOfDefect(d), pats), d, at),
                          RootOf(StyleOfDefect(d)))

\* ------------------------------------------------------------ specifications
\* The slices a caller asks for: (start, stop, step), each None or Some(int).
SliceArgs ==
    {<<st, sp, se>> : st \in {None, Some(1)}, sp \in {Some(2), Some(MaxIndex + 1)},
                      se \in {None, Some(2)}}
    \cup {<<Some(-1), Some(2), None>>, <<None, Some(-1), None>>,
          <<Some(-1), None, None>>, <<Some(-1), Some(-1), Some(2)>>,
          <<None, None, Some(2)>>, <<Some(1), None, None>>}

\* Every access pattern on one instance, one generator at a time.
Next ==
    \/ \E i \in Indices : GetItem(i, FALSE)
    \/ NewIter(1)
    \/ NewSlice(1, None, Some(MaxIndex + 1), None)
    \/ Resume(1)

Spec == Init /\ [][Next]_vars

\* Index accesses and slice walks.
NextSlice ==
    \/ \E i \in Indices : GetItem(i, FALSE)
    \/ \E a \in SliceArgs : NewSlice(1, a[1], a[2], a[3])
    \/ Resume(1)

SpecSlice == InitPlain /\ [][NextSlice]_vars

\* Iteration passes, each started when the one before has completed or been
\* abandoned.
NextRestart ==
    \/ NewIter(1)
    \/ Resume(1)

SpecRestart == InitOK /\ [][NextRestart]_vars

\* Index accesses, on well-behaved servers.
NextIndex ==
    \/ \E i \in Indices : GetItem(i, FALSE)
    \/ NewIter(1)
    \/ Resume(1)

SpecIndex == InitOK /\ [][NextIndex]_vars

\* Index accesses the caller notes, among other accesses.
NextRead ==
    \/ \E i \in Indices, note \in BOOLEAN : GetItem(i, note)
    \/ NewIter(1)
    \/ Resume(1)

SpecRead == InitFlaky /\ [][NextRead]_vars

\* Index accesses, slice walks and iteration passes interleaved at their
\* yields.
NextMix ==
    \/ \E i \in Indices : GetItem(i, FALSE)
    \/ \E g \in Gens : NewIter(g)
    \/ NewSlice(2, None, Some(MaxIndex + 1), None)
    \/ \E g \in Gens : Resume(g)

SpecMix == InitPlain /\ [][NextMix]_vars

\* Index accesses and iteration passes on servers that paginate in the body.
SpecMeta == InitMeta /\ [][NextIndex]_vars

\* Index accesses and iteration passes of callers with keyword arguments, on
\* servers with failing requests.
SpecParams == InitParams /\ [][NextIndex]_vars

\* Index accesses and iteration passes over pages with nulls and empty
\* objects.
SpecRaw == InitRaw /\ [][NextIndex]_vars

\* The slices a caller walks to the end: forward, backward (a negative
\* step), with a step of 0, and with a stop at or below the start.
WalkArgs ==
    {<<None, Some(MaxIndex + 1), None>>, <<Some(1), Some(MaxIndex + 1), Some(2)>>,
     <<Some(MaxIndex), Some(MaxIndex + 1), Some(-1)>>, <<Some(1), Some(2), Some(-1)>>,
     <<None, Some(2), Some(0)>>, <<Some(1), Some(1), None>>}

Ended(g) == gens[g].pc \in {"done", "raised"}

\* A caller that walks every pass and every slice it starts to its end, with
\* index accesses in between.
NextWalk ==
    \/ Ended(1) /\ NewIter(1)
    \/ Ended(1) /\ \E a \in WalkArgs : NewSlice(1, a[1], a[2], a[3])
    \/ Resume(1)
    \/ \E i \in Indices : GetItem(i, FALSE)

\* The caller keeps resuming the generator it holds: weak fairness of
\* Resume(1), i.e. WF_vars(Resume(1)), written out with what enables a
\* Resume(1) step (the generator has not ended; such a step always changes
\* the generator).
KeepsResuming == []<>Ended(1) \/ []<><<Resume(1)>>_vars

SpecWalk == InitPlain /\ [][NextWalk]_vars /\ KeepsResuming

\* ------------------------------------------------------------ claims
\* What the server holds, read off its pages: the n-th proper item with the
\* extra attributes over it, and all of them in page order.
TotalItems == ItemsBefore(server.pages, Len(server.pages) + 1)

ExpectedItem(n) ==
    [k \in {"id"} \cup DOMAIN extra_attribs |->
        IF k \in DOMAIN extra_attribs THEN extra_attribs[k] ELSE Digit[n]]

AllItems == [n \in 1..TotalItems |-> ExpectedItem(n)]

NumPages == Len(server.pages)

\* C1: on a server of N well-behaved pages, every iteration pass that runs to
\* completion has yielded exactly the items of all pages in page order, and
\* the instance has then issued exactly N requests, and never issues more,
\* however many passes were started before (completed or abandoned).
C1_FullIteration ==
    /\ Len(requests) <= NumPages
    /\ \A g \in Gens :
          (gens[g].kind = "iter" /\ gens[g].pc = "done")
              => (gens[g].out = AllItems /\ Len(requests) = NumPages)

\* A pass completed that first replayed elements an earlier, abandoned pass
\* had fetched, then fetched the remaining page itself.
C1_Witness ==
    /\ gens[1].kind = "iter" /\ gens[1].pc = "done"
    /\ gens[1].index > 0 /\ gens[1].buf # <<>>
    /\ NumPages = 2 /\ Len(gens[1].out) >= 3

\* C2: on a well-behaved server, collection[i] with i >= 0 returns the i-th
\* item of the concatenation of all pages when i is less than the number of
\* items, and otherwise fails with index out of range, the cursor being
\* absent by then.
C2_IndexAccess ==
    (ret.op = "getitem" /\ ret.arg[1][1] >= 0)
        => IF ret.arg[1][1] < TotalItems
           THEN ret.err = NoErr /\ ret.val = Some(AllItems[ret.arg[1][1] + 1])
           ELSE ret.err = ErrRange /\ next_url = None

\* collection[n] on a server of two pages and n >= 2 items failed with index
\* out of range after fetching both pages.
C2_Witness ==
    /\ ret.op = "getitem" /\ ret.arg = <<Some(TotalItems)>> /\ ret.err = ErrRange
    /\ NumPages = 2 /\ ret.nreq = 2 /\ TotalItems >= 2

\* The items a walk of [start:stop:step] is to yield: those at start,
\* start+step, ... below stop and below the number of items.
ExpectedSlice(start, stop, step) ==
    [j \in 1..Cardinality({i \in 0..(TotalItems - 1) :
                              i >= start /\ i < stop /\ (i - start) % step = 0})
        |-> AllItems[start + (j - 1) * step + 1]]

\* C3: a walk of collection[start:stop:step] with start >= 0, a given
\* stop >= 0 and step >= 1 yields the items at start, start+step, ... that
\* are below stop and below the number of items, in that order: what it has
\* yielded is always a prefix of them, and all of them once it has ended.
C3_SliceWalk ==
    \A g \in Gens :
        (gens[g].kind = "slice" /\ gens[g].stop # None /\ gens[g].step >= 1)
            => /\ Len(gens[g].out)
                    <= Len(ExpectedSlice(gens[g].start, gens[g].stop[1], gens[g].step))
               /\ gens[g].out
                    = SubSeq(ExpectedSlice(gens[g].start, gens[g].stop[1], gens[g].step),
                             1, Len(gens[g].out))
               /\ gens[g].pc = "done"
                    => gens[g].out
                         = ExpectedSlice(gens[g].start, gens[g].stop[1], gens[g].step)

\* The walk of [1:2] over three or more items on two pages ended having
\* yielded the second item alone.
C3_Witness ==
    /\ gens[1].kind = "slice" /\ gens[1].pc = "done"
    /\ gens[1].start = 1 /\ gens[1].stop = Some(2) /\ gens[1].step = 1
    /\ TotalItems >= 3 /\ NumPages = 2
    /\ gens[1].out = <<AllItems[2]>>

IsNeg(x) == x # None /\ x[1] < 0

\* C4: a slice with no stop and a start that is not negative is accepted.
C4_OpenSliceAccepted ==
    (ret.op = "slice" /\ ret.arg[2] = None /\ ~IsNeg(ret.arg[1]))
        => ret.err = NoErr

\* C5: collection[i] with i < 0, and a slice whose start or stop is negative,
\* fail with the invalid-index error, issue no request and leave the
\* elements, the cursor and the generators as they were.
C5_NegativeRejected ==
    [][((ret'.op = "getitem" /\ IsNeg(ret'.arg[1]))
        \/ (ret'.op = "slice" /\ (IsNeg(ret'.arg[1]) \/ IsNeg(ret'.arg[2]))))
       => /\ ret'.err = (IF ret'.op = "getitem" THEN ErrNegIndex ELSE ErrNegSlice)
          /\ ret'.nreq = 0
          /\ requests' = requests
          /\ elements' = elements
          /\ next_url' = next_url
          /\ next_params' = next_params
          /\ gens' = gens]_vars

\* A slice with a negative stop was refused on an instance that has elements
\* and a cursor.
C5_Witness ==
    /\ ret.op = "slice" /\ ret.arg = <<None, Some(-1), None>>
    /\ ret.err = ErrNegSlice
    /\ elements # <<>> /\ next_url # None

\* C6: once collection[i] has succeeded, every later collection[i] on the
\* instance returns the same element and issues no request.
C6_RepeatRead ==
    [][(seen # None /\ ret'.op = "getitem" /\ ret'.arg = <<Some(seen[1].i)>>)
       => /\ ret'.err = NoErr
          /\ ret'.val = Some(seen[1].val)
          /\ ret'.nreq = 0]_vars

\* collection[i] was read again after other operations had fetched a further
\* page.
C6_Witness ==
    /\ seen # None
    /\ ret.op = "getitem" /\ ret.arg = <<Some(seen[1].i)>>
    /\ Len(elements) > seen[1].i + 1
    /\ Len(requests) > seen[1].at

\* C7: the elements only grow at the end, also when a fetch fails, and every
\* element already there stays readable by its index.
C7_AppendOnly ==
    [][/\ Len(elements') >= Len(elements)
       /\ SubSeq(elements', 1, Len(elements)) = elements
       /\ (ret'.op = "getitem" /\ ~IsNeg(ret'.arg[1]) /\ ret'.arg[1][1] < Len(elements))
            => (ret'.err = NoErr /\ ret'.val = Some(elements[ret'.arg[1][1] + 1]))]_vars

\* An element was read by its index after the request for the second page
\* had failed.
C7_Witness ==
    /\ server.faults = <<NoErr, ErrTransport>>
    /\ Len(requests) >= 2
    /\ elements # <<>>
    /\ ret.op = "getitem" /\ ret.err = NoErr /\ ret.nreq = 0

\* C8: once the cursor is absent it stays absent, and no request is issued
\* any more.
C8_AbsentForGood ==
    [][next_url = None => (next_url' = None /\ requests' = requests)]_vars

\* A pass was started and run on an instance whose cursor a failed fetch had
\* left absent.
C8_Witness ==
    /\ next_url = None
    /\ \E k \in 1..NumPages : server.pages[k].link = "alien"
    /\ ret.op = "next" /\ ret.err = NoErr /\ ret.nreq = 0
    /\ requests # <<>>

\* C9: with no fetch failing, no two requests of the instance are for the
\* same page, whatever the interleaving of index accesses, slice walks and
\* iteration passes.
C9_EachPageOnce ==
    /\ Len(requests) <= NumPages
    /\ \A a, b \in 1..Len(requests) :
          a # b => requests[a].url # requests[b].url

\* A pass suspended in the first page, a slice walk that went on into the
\* second page, then an index access served from the elements.
C9_Witness ==
    /\ gens[1].kind = "iter" /\ gens[1].pc = "grow"
    /\ Len(gens[1].buf) < Len(elements)
    /\ gens[2].kind = "slice" /\ Len(gens[2].out) > Len(gens[1].buf)
    /\ ret.op = "getitem" /\ ret.err = NoErr /\ ret.nreq = 0
    /\ Len(requests) = 2

\* The header-link next URL of the page the last request fetched.
LastPage == PageOf(server, requests[Len(requests)].url)
LastNext == Response(server, LastPage).links.next

\* C10: after a fetch whose response has a header-link next URL, the cursor
\* is the URL without the base URL it begins with, and the fetch fails,
\* leaving no cursor, when the URL begins with neither base URL.
C10_HostPrefix ==
    (/\ ret.nreq > 0
     /\ Fault(server, Len(requests)) = NoErr
     /\ LastNext # None)
        => IF HasPrefixAt(LastNext[1], base_url, 1)
           THEN next_url = Some(SubSeq(LastNext[1], Len(base_url) + 1, Len(LastNext[1])))
           ELSE IF HasPrefixAt(LastNext[1], new_quizzes_url, 1)
           THEN next_url = Some(SubSeq(LastNext[1], Len(new_quizzes_url) + 1,
                                       Len(LastNext[1])))
           ELSE ret.err = ErrNoGroup /\ next_url = None

\* The response to the last request.
LastResponse == Response(server, LastPage)

\* The last operation raised nothing out of a fetch: nothing at all, or the
\* out-of-range error of line 21.
FetchedFine == ret.err \in {NoErr, ErrRange}

\* C11: after a fetch whose response has no header-link next relation and
\* whose body is an object with a meta field (and the root field), the cursor
\* is what a header-link next with the URL of meta.pagination.next would give;
\* and when meta has no pagination.next the cursor is absent and the fetch
\* has raised nothing.
C11_MetaFallback ==
    (/\ ret.nreq > 0
     /\ Fault(server, Len(requests)) = NoErr
     /\ LastResponse.links.next = None
     /\ LastResponse.shape = "dict" /\ LastResponse.meta # None
     /\ LastResponse.root)
        => IF ~LastResponse.meta[1].path
           THEN next_url = None /\ FetchedFine
           ELSE LastResponse.meta[1].url # None
                    => (next_url = RegexSearch(LastResponse.meta[1].url[1])
                        /\ FetchedFine)

\* The parameters the caller means the first request to carry: its keyword
\* arguments, and a page size of 100 if it gave none.
FirstSent ==
    [k \in DOMAIN kwargs \cup {"per_page"} |-> IF k \in DOMAIN kwargs THEN kwargs[k] ELSE 100]

\* Whether some request before the j-th got its page (neither the transport
\* nor the decoding failed).
FetchedBefore(j) == \E i \in 1..(j - 1) : Fault(server, i) = NoErr

\* C12: every request issued before a page has been fetched carries the
\* caller's keyword arguments and the page size (100 unless the caller gave
\* one); every request issued after a page has been fetched carries no
\* parameters, and its URL is the cursor locator of the page before.
C12_FirstRequestParams ==
    \A j \in 1..Len(requests) :
        IF FetchedBefore(j)
        THEN /\ requests[j].params = EmptyDict
             /\ requests[j].url # first_url
        ELSE /\ requests[j].params = FirstSent
             /\ requests[j].url = first_url

\* A caller that gave a filter and a page size has had two pages fetched, the
\* first of them at the second try.
C12_Witness ==
    /\ kwargs = [search |-> "x", per_page |-> 50]
    /\ server.faults = <<ErrTransport>>
    /\ Len(requests) = 3
    /\ requests[2].params = [search |-> "x", per_page |-> 50]
    /\ requests[3].params = EmptyDict
    /\ next_url = None

\* C13: no step of a slice walk raises an index error; and a walk with
\* step >= 1 whose stop is beyond the number of items ends having yielded the
\* items from start on to the last one there is, the collection being
\* exhausted by then if the walk ended at an index below its stop.
C13_SliceEndsQuietly ==
    \A g \in Gens :
        gens[g].kind = "slice"
            => /\ (ret.op = "next" /\ ret.g = g)
                    => ret.err \notin {ErrRange, ErrNegIndex, ErrNegSlice}
               /\ (/\ gens[g].pc = "done" /\ gens[g].step >= 1
                   /\ gens[g].stop # None /\ gens[g].stop[1] > TotalItems)
                    => /\ gens[g].out = ExpectedSlice(gens[g].start, TotalItems, gens[g].step)
                       /\ gens[g].index < gens[g].stop[1] => next_url = None

\* A walk whose stop is beyond the items ended in a step that fetched the
\* last page and still found no element at its index.
C13_Witness ==
    /\ gens[1].kind = "slice" /\ gens[1].pc = "done"
    /\ gens[1].stop = Some(MaxIndex + 1) /\ gens[1].out # <<>>
    /\ ret.op = "next" /\ ret.g = 1 /\ ret.err = NoErr /\ ret.val = None
    /\ ret.nreq > 0 /\ gens[1].index >= TotalItems

\* C14: a pass that has run to completion has yielded every item of every
\* page once, in page order, whatever other accesses fetched pages between
\* its yields.
C14_InterleavedPass ==
    \A g \in Gens :
        (gens[g].kind = "iter" /\ gens[g].pc = "done") => gens[g].out = AllItems

\* C15: collection[i] with i >= 0 issues no request when there are more than
\* i elements already; when it has returned there are more than i elements or
\* the cursor is absent; and when it issued requests, there were at most i
\* elements and a cursor before, and still at most i elements before the last
\* of its requests (the items of the pages before the last one requested).
C15_EnsureLength ==
    [][(ret'.op = "getitem" /\ ret'.arg[1][1] >= 0)
       => /\ Len(elements) > ret'.arg[1][1] => requests' = requests
          /\ Len(elements') > ret'.arg[1][1] \/ next_url' = None
          /\ requests' # requests
               => /\ Len(elements) <= ret'.arg[1][1] /\ next_url # None
                  /\ ItemsBefore(server.pages, Len(requests')) <= ret'.arg[1][1]]_vars

\* collection[i] fetched one page, which gave it element i, and left the
\* cursor on the next page.
C15_Witness ==
    /\ ret.op = "getitem" /\ ret.err = NoErr /\ ret.nreq = 1
    /\ Len(elements) > ret.arg[1][1]
    /\ next_url # None

\* The items of the pages before the last one requested.
ItemsBeforeLast ==
    SubSeq(AllItems, 1, ItemsBefore(server.pages, LastPage))

\* C16: a fetch that fails because the body lacks the root field raises the
\* missing-root error to the caller, adds nothing to the elements, and leaves
\* as cursor the locator of the page after (none after the last page); and
\* the next request after a page without the root field is for the page after
\* it.
C16_MissingRoot ==
    [][/\ ret'.err = ErrRoot
            => /\ ret'.nreq > 0
               /\ ~server.pages[LastPage'].root
               /\ elements' = ItemsBeforeLast'
               /\ next_url' = IF LastPage' < NumPages THEN Some(Loc(LastPage' + 1))
                               ELSE None
       /\ (/\ requests # <<>> /\ requests' # requests
           /\ ~server.pages[LastPage].root)
            => requests'[Len(requests) + 1].url = Loc(LastPage + 1)]_vars

\* The first page came without the root field, and a later access has
\* fetched the second page.
C16_Witness ==
    /\ NumPages = 2 /\ ~server.pages[1].root
    /\ Len(requests) = 2 /\ requests[2].url = Loc(2)
    /\ ret.err = NoErr /\ elements # <<>>

\* C17: once a fetch has failed because the next URL of its page is on
\* neither base URL, the cursor is absent, _has_next and _is_larger_than past
\* the elements are false, and the elements are those of the pages before
\* that page.
C17_UnknownHost ==
    /\ ret.err = ErrNoGroup => ret.nreq > 0 /\ server.pages[LastPage].link = "alien"
    /\ (/\ requests # <<>>
        /\ server.pages[LastPage].link = "alien"
        /\ Fault(server, Len(requests)) = NoErr)
         => /\ next_url = None
            /\ ~HasNext(Self)
            /\ ~IsLargerThan(Self, Len(elements))
            /\ elements = ItemsBeforeLast
            /\ ret.nreq > 0 => ret.err = ErrNoGroup

\* The second page named a next URL on an unknown host: the fetch failed, and
\* a later pass yielded the first page's elements and ended.
C17_Witness ==
    /\ NumPages = 2 /\ server.pages[2].link = "alien"
    /\ Len(requests) = 2 /\ elements # <<>>
    /\ gens[1].kind = "iter" /\ gens[1].pc = "done" /\ gens[1].out = elements
    /\ gens[1].index = Len(elements)

\* C18: a step that ends with the error of the requester or of the decoding
\* has the cursor and the parameters of the request that failed and the
\* elements of the pages before it; if that request was its only one, the
\* cursor, the parameters and the elements are as they were; and the next
\* request after a failed one is the same request again.
C18_FailedRequest ==
    [][/\ ret'.err \in {ErrTransport, ErrDecode}
            => /\ ret'.nreq > 0
               /\ Fault(server, Len(requests')) = ret'.err
               /\ next_url' = Some(requests'[Len(requests')].url)
               /\ next_params' = requests'[Len(requests')].params
               /\ elements' = ItemsBeforeLast'
               /\ ret'.nreq = 1
                    => /\ elements' = elements
                       /\ next_url' = next_url
                       /\ next_params' = next_params
       /\ (/\ requests # <<>> /\ requests' # requests
           /\ Fault(server, Len(requests)) # NoErr)
            => requests'[Len(requests) + 1] = requests[Len(requests)]]_vars

\* The body of the first response did not decode; the request was issued
\* again with the caller's filter and the page size, and gave elements.
C18_Witness ==
    /\ server.faults = <<ErrDecode>>
    /\ Len(requests) >= 2 /\ requests[2] = requests[1]
    /\ requests[1].params = [search |-> "x", per_page |-> 100]
    /\ elements # <<>>

\* C19: on a server of finitely many pages, some of them empty, the instance
\* issues at most one request per page, and every pass and every slice walk
\* (forward, backward, step 0) that the caller keeps resuming comes to its
\* end.
C19_Terminates ==
    /\ [](Len(requests) <= NumPages)
    /\ \A g \in {1} : (~Ended(g)) ~> Ended(g)

\* A backward walk from the last possible index came to its end on a server
\* with an empty page, having yielded elements.
C19_Witness ==
    /\ gens[1].kind = "slice" /\ gens[1].step < 0 /\ gens[1].start = MaxIndex
    /\ gens[1].pc = "done"
    /\ \E k \in 1..NumPages : server.pages[k].pat = <<>>
    /\ ret.op = "next" /\ requests # <<>>

\* C20: with the pages 1..n fetched, the elements are the raw items of those
\* pages that are neither null nor empty, in server order, each with the
\* extra attributes merged over it: nothing stands for a null or an empty raw
\* item.
C20_RawItems ==
    elements = SubSeq(AllItems, 1, ItemsBefore(server.pages, Len(requests) + 1))

====
